---- MODULE Spec2Model ----
(***************************************************************************)
(* AstroVogue horoscope gateway (yunusrepo/astro-turkish-api).             *)
(*                                                                         *)
(* The repository holds six builds of the same Express server:            *)
(*   "server"    src/server.js                 (languages, TTL 20 min)     *)
(*   "part_000"  src/unnamed/part_000          (Turkish, soft fallback)    *)
(*   "part_001"  src/unnamed/part_001          (Aztro data API, daily only)*)
(*   "part_002"  src/unnamed/part_002          (languages, TTL 20 min)     *)
(*   "part_003a" src/unnamed/part_003 1..248   (languages, TTL 30 min)     *)
(*   "part_003b" src/unnamed/part_003 250..428 (languages, TTL 30 min)     *)
(* A behaviour of the model is one process of one build: the build is      *)
(* chosen in Init and never changes.                                       *)
(*                                                                         *)
(* Strings that the code inspects character by character (sign, day,      *)
(* lang, cache keys) are sequences of one-character strings; strings that  *)
(* the code only copies (generated text, table entries, messages) are      *)
(* TLA+ strings, written in ASCII (a letter with a diacritic is written as *)
(* its base letter).  Time is Date.now() in milliseconds.                  *)
(***************************************************************************)
EXTENDS Integers, Sequences, FiniteSets, Bags, TLC

VARIABLES
    variant,     \* which build this process runs
    OPENAI_KEY,  \* process.env.OPENAI_API_KEY is set (TRUE) or missing (FALSE)
    now,         \* the wall clock, Date.now()
    cache,       \* the module-level cache object: key -> {data, expiresAt}
    inflight,    \* the bag of handlers suspended at their await
    last,        \* what the handler step that has just run did; NoStep once observed
    nreq,        \* number of daily and personalized requests received so far
    USERS,       \* the module-level Map of server.js: email -> profile, in insertion order
    job          \* the weekly-alerts handler suspended at its await, or NoJob

vars == <<variant, OPENAI_KEY, now, cache, inflight, last, nreq, USERS, job>>

(***************************************************************************)
(* Bounds of the model.                                                    *)
(***************************************************************************)
MaxRequests == 3
MaxTicks == 3
MaxInFlight == 2
MaxUsers == 2

Variants == {"server", "part_000", "part_001", "part_002", "part_003a", "part_003b"}

(***************************************************************************)
(* Strings as character sequences, and String.prototype.toLowerCase.       *)
(***************************************************************************)
UpperLetters == <<"A","B","C","D","E","F","G","H","I","J","K","L","M",
                  "N","O","P","Q","R","S","T","U","V","W","X","Y","Z">>
LowerLetters == <<"a","b","c","d","e","f","g","h","i","j","k","l","m",
                  "n","o","p","q","r","s","t","u","v","w","x","y","z">>

\* Lower-casing of one character.  U+0130 (capital I with dot above) is the
\* one character whose lower case is two code units: i followed by U+0307.
LowerChar(c) ==
    IF \E i \in 1..Len(UpperLetters) : UpperLetters[i] = c
    THEN <<LowerLetters[CHOOSE i \in 1..Len(UpperLetters) : UpperLetters[i] = c]>>
    ELSE IF c = "U+0130" THEN <<"i", "U+0307">>
    ELSE <<c>>

RECURSIVE ToLowerCase(_)
ToLowerCase(s) ==
    IF s = <<>> THEN <<>> ELSE LowerChar(Head(s)) \o ToLowerCase(Tail(s))

\* A raw request parameter: req.query.x / req.body.x is undefined or a string.
RawUndef == [t |-> "undefined", v |-> <<>>]
RawStr(s) == [t |-> "string", v |-> s]

\* String(x || dflt).toLowerCase()
NormalizeMutDropLower(x, dflt) ==
    IF x.t = "undefined" \/ x.v = <<>> THEN dflt ELSE x.v
Normalize(x, dflt) ==
    ToLowerCase(IF x.t = "undefined" \/ x.v = <<>> THEN dflt ELSE x.v)

(***************************************************************************)
(* The fixed enumerations.                                                 *)
(***************************************************************************)
aries       == <<"a","r","i","e","s">>
taurus      == <<"t","a","u","r","u","s">>
gemini      == <<"g","e","m","i","n","i">>
cancer      == <<"c","a","n","c","e","r">>
leo         == <<"l","e","o">>
virgo       == <<"v","i","r","g","o">>
libra       == <<"l","i","b","r","a">>
scorpio     == <<"s","c","o","r","p","i","o">>
sagittarius == <<"s","a","g","i","t","t","a","r","i","u","s">>
capricorn   == <<"c","a","p","r","i","c","o","r","n">>
aquarius    == <<"a","q","u","a","r","i","u","s">>
pisces      == <<"p","i","s","c","e","s">>

SIGNS == {aries, taurus, gemini, cancer, leo, virgo,
          libra, scorpio, sagittarius, capricorn, aquarius, pisces}

today     == <<"t","o","d","a","y">>
tomorrow  == <<"t","o","m","o","r","r","o","w">>
yesterday == <<"y","e","s","t","e","r","d","a","y">>
DAY_VALUES == {today, tomorrow, yesterday}

en == <<"e","n">>
tr == <<"t","r">>
es == <<"e","s">>
dk == <<"d","k">>
LANGS == {en, tr, es, dk}

TR_SIGN(sign) ==
    CASE sign = aries -> "Koc"         [] sign = taurus -> "Boga"
      [] sign = gemini -> "Ikizler"    [] sign = cancer -> "Yengec"
      [] sign = leo -> "Aslan"         [] sign = virgo -> "Basak"
      [] sign = libra -> "Terazi"      [] sign = scorpio -> "Akrep"
      [] sign = sagittarius -> "Yay"   [] sign = capricorn -> "Oglak"
      [] sign = aquarius -> "Kova"     [] sign = pisces -> "Balik"
      [] OTHER -> "undefined"

(***************************************************************************)
(* What differs between the builds.                                        *)
(***************************************************************************)
\* The builds whose endpoints take a lang parameter.
HasLang(v) == v \in {"server", "part_002", "part_003a", "part_003b"}
\* part_001 has no /api/personalized route.
HasPersonalized(v) == v # "part_001"
\* part_001 calls the Aztro data API, which needs no credential.
UsesOpenAI(v) == v # "part_001"

\* The lifetime of a cache entry, in milliseconds.
TTL(v) == IF v \in {"server", "part_002"} THEN 20 * 60 * 1000 ELSE 30 * 60 * 1000

(***************************************************************************)
(* The clock.  The model moves Date.now() in steps of Tick.                *)
(***************************************************************************)
Tick == 10 * 60 * 1000
MsPerDay == 24 * 60 * 60 * 1000
HourMs == 60 * 60 * 1000

\* Offset from UTC of the time zone a build formats its dates in (standard
\* time); part_000 formats in the zone of the server, taken to be UTC.
TzOffset(v) ==
    CASE v \in {"server", "part_002"} -> 1 * HourMs        \* Europe/Copenhagen
      [] v \in {"part_003a", "part_003b"} -> 3 * HourMs    \* Europe/Istanbul
      [] OTHER -> 0

\* The process is observed from one Tick before a local midnight.
StartNow(v) == 2 * MsPerDay - TzOffset(v) - Tick

(***************************************************************************)
(* Request validation: the first lines of each handler.                    *)
(***************************************************************************)
\* The body of a 400 response: the message of the build.
ErrSign(v) ==
    CASE v = "part_000" -> "Gecersiz burc."
      [] v = "part_001" -> "Invalid sign. Use one of: aries, taurus, gemini, cancer, leo, virgo, libra, scorpio, sagittarius, capricorn, aquarius, pisces"
      [] v = "part_003b" -> "Invalid sign."
      [] OTHER -> "Invalid sign"
ErrDay(v) ==
    CASE v = "part_000" -> "Gecersiz gun."
      [] v = "part_001" -> "Invalid day. Use today, tomorrow, or yesterday."
      [] v = "part_003b" -> "Invalid day."
      [] OTHER -> "Invalid day"
ErrLang(v) == IF v = "part_003b" THEN "Invalid lang." ELSE "Invalid lang"
ErrSun(v) ==
    CASE v = "part_000" -> "Gecersiz gunes burcu."
      [] v = "part_003b" -> "Invalid sun."
      [] OTHER -> "Invalid sun"
ErrRising(v) ==
    CASE v = "part_000" -> "Gecersiz yukselen burc."
      [] v = "part_003b" -> "Invalid rising."
      [] OTHER -> "Invalid rising"

\* No validation error.
Accepted == "accepted"

\* GET /api/daily: the error of the first failing check, or Accepted.
\* sign, day, lang are the normalized locals.
DailyCheckMutNoDay(v, sign, day, lang) ==
    IF sign \notin SIGNS THEN ErrSign(v)
    ELSE IF HasLang(v) /\ lang \notin LANGS THEN ErrLang(v)
    ELSE Accepted
DailyCheckMutNoLang(v, sign, day, lang) ==
    IF sign \notin SIGNS THEN ErrSign(v)
    ELSE IF day \notin DAY_VALUES THEN ErrDay(v)
    ELSE Accepted
DailyCheck(v, sign, day, lang) ==
    IF sign \notin SIGNS THEN ErrSign(v)
    ELSE IF day \notin DAY_VALUES THEN ErrDay(v)
    ELSE IF HasLang(v) /\ lang \notin LANGS THEN ErrLang(v)
    ELSE Accepted

\* POST /api/personalized.  part_003b checks sun and rising only.
PersonalizedCheck(v, sun, rising, day, lang) ==
    IF sun \notin SIGNS THEN ErrSun(v)
    ELSE IF rising # <<>> /\ rising \notin SIGNS THEN ErrRising(v)
    ELSE IF v # "part_003b" /\ day \notin DAY_VALUES THEN ErrDay(v)
    ELSE IF v # "part_003b" /\ HasLang(v) /\ lang \notin LANGS THEN ErrLang(v)
    ELSE Accepted

(***************************************************************************)
(* The cache key of a daily request.                                       *)
(***************************************************************************)
colon == <<":">>
dailyPrefix == <<"d","a","i","l","y",":">>

cacheKeyMutNoDay(v, sign, day, lang) ==
    IF v = "part_001" THEN sign \o colon
    ELSE IF v = "part_000" THEN dailyPrefix \o sign \o colon
    ELSE dailyPrefix \o sign \o colon \o colon \o lang
cacheKey(v, sign, day, lang) ==
    IF v = "part_001" THEN sign \o colon \o day
    ELSE IF v = "part_000" THEN dailyPrefix \o sign \o colon \o day
    ELSE dailyPrefix \o sign \o colon \o day \o colon \o lang

\* cache[key]?.expiresAt > Date.now()
cacheHitMutInverted(c, key, t) == key \in DOMAIN c /\ c[key].expiresAt < t
cacheHitMutInclusive(c, key, t) == key \in DOMAIN c /\ c[key].expiresAt >= t
cacheHit(c, key, t) == key \in DOMAIN c /\ c[key].expiresAt > t

(***************************************************************************)
(* JavaScript values of the generator's JSON and of the payload fields.    *)
(***************************************************************************)
JStr(x) == [t |-> "string", v |-> x]
JNull == [t |-> "null", v |-> ""]
JUndef == [t |-> "undefined", v |-> ""]
JArr(xs) == [t |-> "array", v |-> xs]
\* A function object: what a property inherited from Object.prototype holds.
\* JSON.stringify leaves a property with such a value out of the response.
JFun == [t |-> "function", v |-> "Object.prototype"]

\* ToBoolean: "", null and undefined are falsy; arrays and functions are truthy.
Truthy(x) == (x.t = "string" /\ x.v # "") \/ x.t \in {"array", "function"}
\* j.f: undefined when the object has no such property.
Get(j, f) == IF f \in DOMAIN j THEN j[f] ELSE JUndef
\* x || d
OrElse(x, d) == IF Truthy(x) THEN x ELSE d
\* The tables are object literals: a key that names no entry still finds the
\* methods every object inherits.
InheritedKeys == {"constructor", "toString", "valueOf", "hasOwnProperty",
                  "isPrototypeOf", "propertyIsEnumerable", "toLocaleString"}
\* table[key]: the entry, an inherited method, or undefined.
Lookup(table, key) ==
    IF key.t = "string" /\ key.v \in DOMAIN table THEN JStr(table[key.v])
    ELSE IF key.t = "string" /\ key.v \in InheritedKeys THEN JFun
    ELSE JUndef

(***************************************************************************)
(* fashionTip: the static styling tables of each build.                    *)
(***************************************************************************)
byColorServer(lang) ==
    CASE lang = en -> [Red |-> "Go for a bold accent. A red bag or lip is enough.",
                       Blue |-> "Light blue or denim balances the day.",
                       Green |-> "Natural textures echo inner calm.",
                       Pink |-> "Soft pink details add warmth.",
                       Black |-> "Keep a clean silhouette.",
                       Gray |-> "Structured neutrals look sharp.",
                       Grey |-> "Structured neutrals look sharp."]
      [] lang = tr -> [Kirmizi |-> "Kucuk bir kirmizi detay yeterli. Canta ya da ruj.",
                       Mavi |-> "Acik mavi veya denim denge saglar.",
                       Yesil |-> "Dogal dokular huzur verir.",
                       Pembe |-> "Yumusak pembe sicaklik katar.",
                       Siyah |-> "Net siluetle guclu gorun.",
                       Gri |-> "Yapili notrler sik durur."]
      [] lang = es -> [Rojo |-> "Un detalle rojo basta. Bolso o labial.",
                       Azul |-> "Azul claro o denim equilibra el dia.",
                       Verde |-> "Texturas naturales aportan calma.",
                       Rosa |-> "Rosa suave anade calidez.",
                       Negro |-> "Silueta limpia y firme.",
                       Gris |-> "Neutros estructurados."]
      [] lang = dk -> [Rod |-> "Et lille rodt touch er nok. Taske eller laebe.",
                       Bla |-> "Lysebla eller denim giver balance.",
                       Gron |-> "Naturlige teksturer giver ro.",
                       Lyserod |-> "Blode lyserode detaljer.",
                       Sort |-> "Ren og staerk silhuet.",
                       Gra |-> "Strukturerede neutrale toner."]

byMoodServer(lang) ==
    CASE lang = en -> [Balanced |-> "Refined and pared back.",
                       Energetic |-> "Blend sporty and chic.",
                       Romantic |-> "Airy fabrics and pastels.",
                       Calm |-> "Neutral tones and relaxed cuts."]
      [] lang = tr -> [Dengeli |-> "Zarif ve yalin kal.",
                       Enerjik |-> "Spor-sik karistir.",
                       Romantik |-> "Hafif kumaslar ve pasteller.",
                       Sakin |-> "Notr tonlar ve rahat kesimler."]
      [] lang = es -> [Equilibrado |-> "Depurado y elegante.",
                       Energetico |-> "Mezcla sport y chic.",
                       Romantico |-> "Tejidos ligeros y pasteles.",
                       Sereno |-> "Neutros y cortes comodos."]
      [] lang = dk -> [Balanceret |-> "Raffineret og enkelt.",
                       Energisk |-> "Mix sporty og elegant.",
                       Romantisk |-> "Let stof og pasteller.",
                       Rolig |-> "Neutrale farver og afslappede snit."]

\* part_002 and the first server of part_003 share one table up to commas.
byColorStrict(lang) ==
    CASE lang = en -> [Gray |-> "Choose minimalist structured tones.",
                       Grey |-> "Choose minimalist structured tones.",
                       Blue |-> "Light blue or denim balances the day.",
                       Red |-> "A small red accessory lifts your energy.",
                       Green |-> "Natural textures echo inner calm.",
                       Pink |-> "Soft pink details add warmth.",
                       Black |-> "Keep a clean strong silhouette."]
      [] lang = tr -> [Gri |-> "Sade tonlar ve net kesimler sec.",
                       Mavi |-> "Acik mavi veya denim denge saglar.",
                       Kirmizi |-> "Kucuk bir kirmizi aksesuar enerji katar.",
                       Yesil |-> "Dogal dokular ic huzuru yansitir.",
                       Pembe |-> "Yumusak pembe detaylar sicaklik katar.",
                       Siyah |-> "Temiz siluetle minimal ve guclu gorun."]
      [] lang = es -> [Gris |-> "Tonos sobrios y cortes limpios.",
                       Azul |-> "Azul claro o denim equilibra el dia.",
                       Rojo |-> "Un detalle rojo eleva la energia.",
                       Verde |-> "Texturas naturales aportan calma.",
                       Rosa |-> "Detalles rosa suave suman calidez.",
                       Negro |-> "Silueta limpia y poderosa."]
      [] lang = dk -> [Gra |-> "Vaelg minimalistiske rene snit.",
                       Bla |-> "Lysebla eller denim giver balance.",
                       Rod |-> "Et lille rodt element giver energi.",
                       Gron |-> "Naturlige teksturer giver ro.",
                       Lyserod |-> "Blode lyserode detaljer giver varme.",
                       Sort |-> "Klar og staerk silhuet."]

byMoodStrict(lang) ==
    CASE lang = en -> [Balanced |-> "Stay refined and pared back.",
                       Energetic |-> "Blend sporty and chic.",
                       Romantic |-> "Airy fabrics and pastels work well.",
                       Calm |-> "Neutral tones and relaxed cuts."]
      [] lang = tr -> [Dengeli |-> "Zarif ve yalin kal.",
                       Enerjik |-> "Spor-sik parcalari karistir.",
                       Romantik |-> "Pastel ve ince kumaslara yonel.",
                       Sakin |-> "Notr tonlar ve rahat kesimler."]
      [] lang = es -> [Equilibrado |-> "Manten un estilo depurado.",
                       Energetico |-> "Mezcla sport y chic.",
                       Romantico |-> "Tejidos ligeros y pasteles.",
                       Sereno |-> "Tonos neutros y cortes comodos."]
      [] lang = dk -> [Balanceret |-> "Hold det raffineret og enkelt.",
                       Energisk |-> "Mix sporty og elegant.",
                       Romantisk |-> "Lette stoffer og pasteller.",
                       Rolig |-> "Neutrale farver og afslappede snit."]

tipsByColorTr ==
    [Gri |-> "Sade tonlar ve net kesimler sec.",
     Mavi |-> "Acik mavi veya denim dengeleme saglar.",
     Kirmizi |-> "Kucuk bir kirmizi aksesuar enerji katar.",
     Yesil |-> "Dogal tonlar ic huzuru yansitir.",
     Pembe |-> "Yumusak detaylarla sicaklik ekle.",
     Siyah |-> "Minimal ve guclu bir siluet uygula."]
tipsByMoodTr ==
    [Dengeli |-> "Zarif ve yalin kal.",
     Enerjik |-> "Spor-sik parcalari karistir.",
     Romantik |-> "Pastel dokulara yonel.",
     Sakin |-> "Notr ve rahat kesimler kullan."]

tipsByColorMixed ==
    [Gray |-> "Choose minimalist, structured tones.",
     Grey |-> "Choose minimalist, structured tones.",
     Gri |-> "Sade tonlar ve net kesimler sec.",
     Azul |-> "Elige tonos azules o denim para equilibrio.",
     Bla |-> "Vaelg bla nuancer for ro.",
     Rojo |-> "Un toque rojo aporta energia.",
     Rod |-> "Et rodt tilbehor giver energi."]

\* The tables a build's fashionTip reads.
byColor(v, lang) ==
    CASE v = "server" -> byColorServer(lang)
      [] v \in {"part_002", "part_003a"} -> byColorStrict(lang)
      [] v = "part_000" -> tipsByColorTr
      [] v = "part_003b" -> tipsByColorMixed
byMood(v, lang) ==
    CASE v = "server" -> byMoodServer(lang)
      [] v \in {"part_002", "part_003a"} -> byMoodStrict(lang)
      [] v = "part_000" -> tipsByMoodTr

\* fashionTip(color, mood, lang) of the build; part_000 and part_003b take no
\* lang, and part_003b reads no mood table.
fashionTipMutMoodFirst(v, color, mood, lang) ==
    CASE v = "part_000" ->
           OrElse(Lookup(tipsByMoodTr, mood),
                  OrElse(Lookup(tipsByColorTr, color), JStr("Zarif bir aksesuar ekle.")))
      [] v = "part_003b" ->
           OrElse(Lookup(tipsByColorMixed, color), JStr("Keep it elegant and balanced."))
      [] OTHER ->
           IF lang \notin LANGS THEN JStr("")
           ELSE IF Truthy(mood) /\ Truthy(Lookup(byMood(v, lang), mood))
           THEN Lookup(byMood(v, lang), mood)
           ELSE IF Truthy(color) /\ Truthy(Lookup(byColor(v, lang), color))
           THEN Lookup(byColor(v, lang), color)
           ELSE JStr("")
fashionTip(v, color, mood, lang) ==
    CASE v = "part_000" ->
           OrElse(Lookup(tipsByColorTr, color),
                  OrElse(Lookup(tipsByMoodTr, mood), JStr("Zarif bir aksesuar ekle.")))
      [] v = "part_003b" ->
           OrElse(Lookup(tipsByColorMixed, color), JStr("Keep it elegant and balanced."))
      [] OTHER ->
           IF lang \notin LANGS THEN JStr("")
           ELSE IF Truthy(color) /\ Truthy(Lookup(byColor(v, lang), color))
           THEN Lookup(byColor(v, lang), color)
           ELSE IF Truthy(mood) /\ Truthy(Lookup(byMood(v, lang), mood))
           THEN Lookup(byMood(v, lang), mood)
           ELSE JStr("")

(***************************************************************************)
(* Dates.  A formatted date is the locale it is written in and the         *)
(* calendar day (days since the epoch, in the build's time zone) it shows. *)
(***************************************************************************)
dayOffset(day) == IF day = yesterday THEN -1 ELSE IF day = tomorrow THEN 1 ELSE 0

CalendarDay(v, t) == (t + TzOffset(v)) \div MsPerDay

locales(lang) ==
    CASE lang = en -> "en-GB" [] lang = tr -> "tr-TR"
      [] lang = es -> "es-ES" [] lang = dk -> "da-DK" [] OTHER -> "en-GB"

\* dateFor(lang, day) in server.js and part_002, trDateFor(day) in part_003,
\* new Date().toLocaleDateString("tr-TR") in part_000; t is Date.now().
dateFor(v, lang, day, t) ==
    CASE v \in {"server", "part_002"} ->
           JStr([locale |-> locales(lang), day |-> CalendarDay(v, t) + dayOffset(day)])
      [] v \in {"part_003a", "part_003b"} ->
           JStr([locale |-> "tr-TR", day |-> CalendarDay(v, t) + dayOffset(day)])
      [] OTHER ->
           JStr([locale |-> "tr-TR", day |-> CalendarDay(v, t)])

(***************************************************************************)
(* Response shaping: the payload a handler builds from the parsed result j *)
(* (the record of the properties the JSON object has).                     *)
(***************************************************************************)
EmptyObject == [f \in {} |-> JUndef]

\* j.f || ""
D(j, f) == OrElse(Get(j, f), JStr(""))

imagePath(sign) == <<"/","i","m","g","/">> \o sign \o <<".","j","p","g">>

affiliateLabel(lang) ==
    CASE lang = tr -> "Bu gorunumu kesfet" [] lang = es -> "Compra el look"
      [] lang = dk -> "Shop looket" [] OTHER -> "Shop the look"

Min(a, b) == IF a < b THEN a ELSE b

\* Array.isArray(j.palette) && j.palette.length ? j.palette.slice(0,5) : []
palette(j) ==
    IF Get(j, "palette").t = "array" /\ Len(Get(j, "palette").v) > 0
    THEN JArr(SubSeq(Get(j, "palette").v, 1, Min(5, Len(Get(j, "palette").v))))
    ELSE JArr(<<>>)

\* The fashion_tip of a daily or personalized payload.
fashionTipFieldMutTableFirst(v, j, lang) ==
    IF v = "server"
    THEN OrElse(fashionTip(v, Get(j, "color"), Get(j, "mood"), lang), Get(j, "fashion_tip"))
    ELSE fashionTip(v, Get(j, "color"), Get(j, "mood"), lang)
fashionTipField(v, j, lang) ==
    IF v = "server"
    THEN OrElse(Get(j, "fashion_tip"), fashionTip(v, Get(j, "color"), Get(j, "mood"), lang))
    ELSE fashionTip(v, Get(j, "color"), Get(j, "mood"), lang)

\* buildAnalysis(trSign, payload) of part_001: the parts that are present.
buildAnalysis(trSign, data) ==
    LET part(label, f) == IF Truthy(Get(data, f)) THEN <<[label |-> label, text |-> Get(data, f)]>>
                          ELSE <<>>
    IN JStr([sign |-> trSign,
             parts |-> part("", "description") \o part("Uyum", "compatibility")
                       \o part("Ruh hali", "mood") \o part("Gunun rengi", "color")
                       \o part("Sansli sayi", "lucky_number")
                       \o part("Sansli zaman", "lucky_time")])

\* GET /api/daily, server.js 143-167, part_002 175-188, part_003 175-188 and
\* 361-374: the builds with a language.
DailyPayloadLang(v, sign, day, lang, j, t) ==
    LET base == [brand |-> JStr("AstroVogue"),
                 sign |-> sign,
                 lang |-> lang,
                 date |-> dateFor(v, lang, day, t),
                 description |-> D(j, "description"),
                 mood |-> D(j, "mood"),
                 color |-> D(j, "color"),
                 compatibility |-> D(j, "compatibility"),
                 lucky_number |-> D(j, "lucky_number"),
                 lucky_time |-> D(j, "lucky_time"),
                 paragraph |-> D(j, "paragraph"),
                 fashion_tip |-> fashionTipField(v, j, lang)]
    IN IF v = "server"
       THEN base @@ [beauty_tip |-> D(j, "beauty_tip"),
                     style_advice |-> D(j, "style_advice"),
                     accessory_highlight |-> D(j, "accessory_highlight"),
                     palette |-> palette(j),
                     image |-> imagePath(sign),
                     affiliate |-> [url |-> "https://www.example.com/red-accessories?ref=astrovogue",
                                    label |-> affiliateLabel(lang)]]
       ELSE base

\* GET /api/daily of part_000, lines 103-120.
DailyPayloadTr(sign, day, j, t) ==
    LET renk == OrElse(Get(j, "renk"), JStr("Gri"))
        ruh_hali == OrElse(Get(j, "ruh_hali"), JStr("Dengeli"))
    IN [marka |-> JStr("AstroVogue"),
        burc |-> JStr(TR_SIGN(sign)),
        gun |-> day,
        tarih |-> dateFor("part_000", tr, day, t),
        aciklama |-> D(j, "aciklama"),
        uyum |-> D(j, "uyum"),
        ruh_hali |-> ruh_hali,
        renk |-> renk,
        sansli_sayi |-> D(j, "sansli_sayi"),
        sansli_saat |-> D(j, "sansli_saat"),
        analiz |-> D(j, "analiz"),
        moda_onerisi |-> fashionTip("part_000", renk, ruh_hali, tr)]

\* GET /api/daily of part_001, lines 73-85; isNull: the data source sent null.
DailyPayloadAztro(sign, day, data, isNull) ==
    [burc |-> JStr(TR_SIGN(sign)),
     gun |-> day,
     tarih |-> OrElse(Get(data, "current_date"), JNull),
     aciklama |-> D(data, "description"),
     uyum |-> D(data, "compatibility"),
     ruh_hali |-> D(data, "mood"),
     renk |-> D(data, "color"),
     sansli_sayi |-> D(data, "lucky_number"),
     sansli_saat |-> D(data, "lucky_time"),
     analiz |-> buildAnalysis(TR_SIGN(sign), data),
     raw |-> IF isNull THEN JNull ELSE [t |-> "object", v |-> data]]

\* The payload of a successful daily request.
DailyPayload(v, sign, day, lang, j, isNull, t) ==
    CASE v = "part_000" -> DailyPayloadTr(sign, day, j, t)
      [] v = "part_001" -> DailyPayloadAztro(sign, day, j, isNull)
      [] OTHER -> DailyPayloadLang(v, sign, day, lang, j, t)

\* POST /api/personalized: server.js 200-224, part_002 217-230, part_003
\* 219-232 and 400-413, part_000 176-188.
PersonalizedPayload(v, sun, rising, day, lang, j, t) ==
    IF v = "part_000"
    THEN LET renk == OrElse(Get(j, "renk"), JStr("Gri"))
             ruh_hali == OrElse(Get(j, "ruh_hali"), JStr("Dengeli"))
         IN [marka |-> JStr("AstroVogue"),
             tarih |-> dateFor("part_000", tr, day, t),
             gunes |-> JStr(TR_SIGN(sun)),
             yukselen |-> IF rising # <<>> THEN JStr(TR_SIGN(rising)) ELSE JNull,
             aciklama |-> D(j, "aciklama"),
             ruh_hali |-> ruh_hali,
             renk |-> renk,
             uyum |-> D(j, "uyum"),
             odak |-> OrElse(Get(j, "odak"), JStr("Genel")),
             rehber |-> OrElse(Get(j, "rehber"), JStr("Plani sade tut ve net ol.")),
             stil |-> OrElse(Get(j, "stil"), fashionTip("part_000", renk, ruh_hali, tr))]
    ELSE LET base == [brand |-> JStr("AstroVogue"),
                      lang |-> lang,
                      date |-> dateFor(v, lang, day, t),
                      sun |-> sun,
                      rising |-> rising,
                      summary |-> D(j, "summary"),
                      guidance |-> D(j, "guidance"),
                      color |-> D(j, "color"),
                      mood |-> D(j, "mood"),
                      compatibility |-> D(j, "compatibility"),
                      paragraph |-> D(j, "paragraph"),
                      fashion_tip |-> fashionTipField(v, j, lang)]
         IN IF v = "server"
            THEN base @@ [beauty_tip |-> D(j, "beauty_tip"),
                          style_advice |-> D(j, "style_advice"),
                          accessory_highlight |-> D(j, "accessory_highlight"),
                          palette |-> palette(j),
                          image |-> imagePath(sun),
                          affiliate |-> [url |-> "https://www.example.com/red-accessories?ref=astrovogue",
                                         label |-> affiliateLabel(lang)]]
            ELSE base

(***************************************************************************)
(* Responses.                                                              *)
(***************************************************************************)
ErrorBody(msg) == [kind |-> "error", error |-> msg]
PayloadBody(payload) == [kind |-> "payload", data |-> payload]
Response(status, body) == [status |-> status, body |-> body]

\* The catch block of GET /api/daily in part_000, lines 126-139; q is the raw
\* query (burc and gun are computed from it again, gun without lower-casing).
DailyFallbackTr(q, t) ==
    [marka |-> JStr("AstroVogue"),
     burc |-> JStr(IF Normalize(q.sign, <<>>) \in SIGNS
                   THEN TR_SIGN(Normalize(q.sign, <<>>)) ELSE "-"),
     gun |-> IF q.day.t = "undefined" \/ q.day.v = <<>> THEN today ELSE q.day.v,
     tarih |-> dateFor("part_000", tr, today, t),
     aciklama |-> JStr("Gunu basit planla ve iletisimde net ol."),
     uyum |-> JStr("Yengec"),
     ruh_hali |-> JStr("Dengeli"),
     renk |-> JStr("Gri"),
     sansli_sayi |-> JStr("4"),
     sansli_saat |-> JStr("14:00"),
     analiz |-> JStr("Odak dagilmasin. Sakin ilerle."),
     moda_onerisi |-> JStr("Sade tonlar ve net kesimler sec.")]

\* The catch block of POST /api/personalized in part_000, lines 191-203.
PersonalizedFallbackTr(b, t) ==
    [marka |-> JStr("AstroVogue"),
     tarih |-> dateFor("part_000", tr, today, t),
     gunes |-> JStr(IF Normalize(b.sun, <<>>) \in SIGNS
                    THEN TR_SIGN(Normalize(b.sun, <<>>)) ELSE "-"),
     yukselen |-> IF b.rising.t = "undefined" \/ b.rising.v = <<>> THEN JNull
                  ELSE JStr(TR_SIGN(ToLowerCase(b.rising.v))),
     aciklama |-> JStr("Bugun sade hedeflerle ilerle."),
     ruh_hali |-> JStr("Dengeli"),
     renk |-> JStr("Gri"),
     uyum |-> JStr("Yengec"),
     odak |-> JStr("Genel"),
     rehber |-> JStr("Net plan yap, kucuk adimlar at."),
     stil |-> JStr("Minimal bir siluet ve tek guclu aksesuar.")]

\* What a handler's catch block sends; msg is err.message.
DailyCatchMutSilent(v, q, msg, t) == Response(0, ErrorBody(""))
DailyCatchMutFallback(v, q, msg, t) == Response(200, PayloadBody(DailyFallbackTr(q, t)))
DailyCatch(v, q, msg, t) ==
    CASE v = "part_000" -> Response(200, PayloadBody(DailyFallbackTr(q, t)))
      [] v = "part_001" -> Response(500, ErrorBody(msg))
      [] v = "part_003b" -> Response(200, ErrorBody("Server error"))
      [] OTHER -> Response(500, ErrorBody("Server error"))

PersonalizedCatchMutSurface(v, b, msg, t) == Response(500, ErrorBody("Server error"))
PersonalizedCatch(v, b, msg, t) ==
    CASE v = "part_000" -> Response(200, PayloadBody(PersonalizedFallbackTr(b, t)))
      [] v = "part_003b" -> Response(200, ErrorBody("Server error"))
      [] OTHER -> Response(500, ErrorBody("Server error"))

(***************************************************************************)
(* The cache store.                                                        *)
(***************************************************************************)
\* cache[key] = { data, expiresAt }
cachePutMutKeepFirst(c, key, payload, expiresAt) ==
    IF key \in DOMAIN c THEN c
    ELSE [k \in DOMAIN c \cup {key} |->
            IF k = key THEN [data |-> payload, expiresAt |-> expiresAt] ELSE c[k]]
cachePut(c, key, payload, expiresAt) ==
    [k \in DOMAIN c \cup {key} |->
        IF k = key THEN [data |-> payload, expiresAt |-> expiresAt] ELSE c[k]]

\* The expiry a successful daily request stores: part_001 adds the TTL to the
\* time it read before the fetch (t0), the others to Date.now() at the store.
storeExpiresAt(v, t0, tStore) ==
    IF v = "part_001" THEN t0 + TTL(v) ELSE tStore + TTL(v)

\* What the lookup cache[cacheKey]?.expiresAt > Date.now() leaves in the
\* cache: it is a read, the entry stays whether it has expired or not.
cacheAfterLookupMutPurge(c, key, t) ==
    IF key \in DOMAIN c /\ c[key].expiresAt <= t
    THEN [k \in DOMAIN c \ {key} |-> c[k]] ELSE c
cacheAfterLookup(c, key, t) == c

\* What a successful personalized request leaves in the cache: the handler
\* sends its payload and stores nothing.
cacheAfterPersonalizedMutStore(c, p, payload, t) ==
    cachePut(c, <<"p",":">> \o p.sun, payload, t + Tick)
cacheAfterPersonalized(c, p, payload, t) == c

\* What the catch block leaves in the cache: it stores nothing.
cacheAfterCatchMutStore(c, key, resp, t) == cachePut(c, key, resp.body, t + Tick)
cacheAfterCatch(c, key, resp, t) == c

\* The result of the awaited call makes the handler throw while shaping: the
\* text-generator builds read properties of a parsed null; part_001 reads
\* them with ?. and does not throw.
shapingThrows(v, res) == res.isNull /\ v # "part_001"

(***************************************************************************)
(* Suspended handlers and the record of a handler step.                    *)
(***************************************************************************)
NoKey == <<>>
NotSeen == [present |-> FALSE, expiresAt |-> 0, data |-> EmptyObject]
Seen(c, key) ==
    IF key \in DOMAIN c
    THEN [present |-> TRUE, expiresAt |-> c[key].expiresAt, data |-> c[key].data]
    ELSE NotSeen
NoResult == [isNull |-> FALSE, fields |-> EmptyObject]
NoStep == [outcome |-> "none"]

\* A handler suspended at its await: the closure it resumes with.  calls is
\* the number of calls of openaiJSON / getAztro it has made, each of one
\* fetch; t0 is the local `now` of part_001 (line 65), the other builds keep
\* no time.
Suspended(ep, raw, p, key) ==
    [ep |-> ep, raw |-> raw, p |-> p, key |-> key, calls |-> 1,
     t0 |-> IF variant = "part_001" THEN now ELSE 0]

\* The record of a handler step.  outcome is "reject" (400 from validation),
\* "hit" (served from the cache), "call" (the generator call was issued and
\* the handler is suspended), "success" or "failure" (the call settled and
\* the response was sent).  calls counts the calls of openaiJSON / getAztro
\* the request has made, http the fetches they made, reads its cache
\* lookups; wrote tells whether the step changed the cache; seen is the
\* entry found under the key at the lookup of this step, prev the entry the
\* store of this step replaced; t is Date.now() at the step.
Step(ep, raw, p, verdict, outcome, key, seen, prev, resp, calls, http, reads, wrote, res) ==
    [ep |-> ep, raw |-> raw, p |-> p, verdict |-> verdict, outcome |-> outcome,
     key |-> key, seen |-> seen, prev |-> prev, t |-> now, resp |-> resp,
     calls |-> calls, http |-> http, reads |-> reads, wrote |-> wrote, res |-> res]
NoResponse == Response(0, ErrorBody(""))

\* The messages of the errors openaiJSON and getAztro throw.
MissingKeyMsg(v) ==
    IF v \in {"part_000", "part_003a", "part_003b"} THEN "OPENAI_API_KEY missing"
    ELSE "Missing OPENAI_API_KEY"
UpstreamErrorMsg(v) == IF v = "part_001" THEN "Aztro error" ELSE "OpenAI error"
TypeErrorMsg == "Cannot read properties of null"

(***************************************************************************)
(* The handlers.  A handler runs without interruption up to its await and  *)
(* from the settling of the awaited call to its response.                  *)
(***************************************************************************)
\* The normalized locals of GET /api/daily and of POST /api/personalized.
\* The builds without languages have no lang local.
NoLang == <<>>
DailyLocals(v, q) ==
    [sign |-> Normalize(q.sign, <<>>), day |-> Normalize(q.day, today),
     lang |-> IF HasLang(v) THEN Normalize(q.lang, en) ELSE NoLang]
PersonalizedLocals(v, b) ==
    [sun |-> Normalize(b.sun, <<>>), rising |-> Normalize(b.rising, <<>>),
     day |-> Normalize(b.day, today),
     lang |-> IF HasLang(v) THEN Normalize(b.lang, en) ELSE NoLang]

\* GET /api/daily up to the await: validation, cache lookup, start of the
\* generator call.  With the credential missing openaiJSON throws before any
\* fetch and the handler reaches its catch block at once.
DailyArrive(q) ==
    LET p == DailyLocals(variant, q)
        verdict == DailyCheck(variant, p.sign, p.day, p.lang)
        key == cacheKey(variant, p.sign, p.day, p.lang)
        caught == DailyCatch(variant, q, MissingKeyMsg(variant), now)
    IN /\ last = NoStep
       /\ BagCardinality(inflight) < MaxInFlight
       /\ nreq' = nreq + 1
       /\ UNCHANGED <<USERS, job, variant, OPENAI_KEY, now>>
       /\ IF verdict # Accepted
          THEN /\ last' = Step("daily", q, p, verdict, "reject", NoKey, NotSeen, NotSeen,
                               Response(400, ErrorBody(verdict)), 0, 0, 0, FALSE, NoResult)
               /\ UNCHANGED <<cache, inflight>>
          ELSE IF cacheHit(cache, key, now)
          THEN /\ cache' = cacheAfterLookup(cache, key, now)
               /\ last' = Step("daily", q, p, verdict, "hit", key, Seen(cache, key), NotSeen,
                               Response(200, PayloadBody(cache[key].data)),
                               0, 0, 1, cache' # cache, NoResult)
               /\ UNCHANGED inflight
          ELSE IF UsesOpenAI(variant) /\ ~OPENAI_KEY
          THEN /\ cache' = cacheAfterCatch(cacheAfterLookup(cache, key, now), key, caught, now)
               /\ last' = Step("daily", q, p, verdict, "failure", key, Seen(cache, key), NotSeen,
                               caught, 1, 0, 1, cache' # cache, NoResult)
               /\ UNCHANGED inflight
          ELSE /\ inflight' = inflight (+) SetToBag({Suspended("daily", q, p, key)})
               /\ cache' = cacheAfterLookup(cache, key, now)
               /\ last' = Step("daily", q, p, verdict, "call", key, Seen(cache, key), NotSeen,
                               NoResponse, 1, 1, 1, cache' # cache, NoResult)

\* POST /api/personalized up to the await.
PersonalizedArrive(b) ==
    LET p == PersonalizedLocals(variant, b)
        verdict == PersonalizedCheck(variant, p.sun, p.rising, p.day, p.lang)
    IN /\ HasPersonalized(variant)
       /\ last = NoStep
       /\ BagCardinality(inflight) < MaxInFlight
       /\ nreq' = nreq + 1
       /\ UNCHANGED <<USERS, job, variant, OPENAI_KEY, now, cache>>
       /\ IF verdict # Accepted
          THEN /\ last' = Step("personalized", b, p, verdict, "reject", NoKey, NotSeen, NotSeen,
                               Response(400, ErrorBody(verdict)), 0, 0, 0, FALSE, NoResult)
               /\ UNCHANGED inflight
          ELSE IF ~OPENAI_KEY
          THEN /\ last' = Step("personalized", b, p, verdict, "failure", NoKey, NotSeen, NotSeen,
                               PersonalizedCatch(variant, b, MissingKeyMsg(variant), now),
                               1, 0, 0, FALSE, NoResult)
               /\ UNCHANGED inflight
          ELSE /\ inflight' = inflight (+) SetToBag({Suspended("personalized", b, p, NoKey)})
               /\ last' = Step("personalized", b, p, verdict, "call", NoKey, NotSeen, NotSeen,
                               NoResponse, 1, 1, 0, FALSE, NoResult)

\* The awaited call of the suspended handler r resolves with the parsed JSON
\* res: the handler shapes the payload, stores it (daily) and responds; or it
\* throws while shaping and runs its catch block.
GeneratorReturn(r, res) ==
    /\ last = NoStep
    /\ BagIn(r, inflight)
    /\ inflight' = inflight (-) SetToBag({r})
    /\ UNCHANGED <<USERS, job, variant, OPENAI_KEY, now, nreq>>
    /\ IF r.ep = "daily"
       THEN IF shapingThrows(variant, res)
            THEN LET caught == DailyCatch(variant, r.raw, TypeErrorMsg, now)
                 IN /\ cache' = cacheAfterCatch(cache, r.key, caught, now)
                    /\ last' = Step("daily", r.raw, r.p, Accepted, "failure", r.key,
                                    NotSeen, NotSeen, caught, r.calls, r.calls, 1, cache' # cache, res)
            ELSE LET payload == DailyPayload(variant, r.p.sign, r.p.day, r.p.lang,
                                             res.fields, res.isNull, now)
                 IN /\ cache' = cachePut(cache, r.key, payload,
                                         storeExpiresAt(variant, r.t0, now))
                    /\ last' = Step("daily", r.raw, r.p, Accepted, "success", r.key,
                                    NotSeen, Seen(cache, r.key), Response(200, PayloadBody(payload)),
                                    r.calls, r.calls, 1, cache' # cache, res)
       ELSE IF shapingThrows(variant, res)
            THEN /\ UNCHANGED cache
                 /\ last' = Step("personalized", r.raw, r.p, Accepted, "failure", NoKey,
                                 NotSeen, NotSeen, PersonalizedCatch(variant, r.raw, TypeErrorMsg, now),
                                 r.calls, r.calls, 0, FALSE, res)
            ELSE LET payload == PersonalizedPayload(variant, r.p.sun, r.p.rising,
                                                    r.p.day, r.p.lang, res.fields, now)
                 IN /\ cache' = cacheAfterPersonalized(cache, r.p, payload, now)
                    /\ last' = Step("personalized", r.raw, r.p, Accepted, "success", NoKey,
                                    NotSeen, NotSeen, Response(200, PayloadBody(payload)),
                                    r.calls, r.calls, 0, cache' # cache, res)

\* The awaited call of r rejects (transport error, non-2xx status,
\* unparsable content): the handler runs its catch block.
GeneratorFailMutRetry(r) ==
    /\ last = NoStep
    /\ BagIn(r, inflight)
    /\ inflight' = (inflight (-) SetToBag({r})) (+) SetToBag({[r EXCEPT !.calls = 2]})
    /\ last' = Step(r.ep, r.raw, r.p, Accepted, "call", r.key, NotSeen, NotSeen,
                    NoResponse, 2, 2, IF r.ep = "daily" THEN 1 ELSE 0, FALSE, NoResult)
    /\ UNCHANGED <<USERS, job, variant, OPENAI_KEY, now, nreq, cache>>
GeneratorFail(r) ==
    /\ last = NoStep
    /\ BagIn(r, inflight)
    /\ inflight' = inflight (-) SetToBag({r})
    /\ UNCHANGED <<USERS, job, variant, OPENAI_KEY, now, nreq>>
    /\ IF r.ep = "daily"
       THEN LET caught == DailyCatch(variant, r.raw, UpstreamErrorMsg(variant), now)
            IN /\ cache' = cacheAfterCatch(cache, r.key, caught, now)
               /\ last' = Step("daily", r.raw, r.p, Accepted, "failure", r.key, NotSeen, NotSeen,
                               caught, r.calls, r.calls, 1, cache' # cache, NoResult)
       ELSE /\ UNCHANGED cache
            /\ last' = Step("personalized", r.raw, r.p, Accepted, "failure", NoKey, NotSeen, NotSeen,
                            PersonalizedCatch(variant, r.raw, UpstreamErrorMsg(variant), now),
                            r.calls, r.calls, 0, FALSE, NoResult)

\* The step that has just run has been observed; the event loop goes on.
Observe ==
    /\ last # NoStep
    /\ last' = NoStep
    /\ UNCHANGED <<USERS, job, variant, OPENAI_KEY, now, cache, inflight, nreq>>

\* Time passes.
ClockTick ==
    /\ last = NoStep
    /\ now < StartNow(variant) + MaxTicks * Tick
    /\ now' = now + Tick
    /\ UNCHANGED <<USERS, job, variant, OPENAI_KEY, cache, inflight, last, nreq>>

(***************************************************************************)
(* The user store of server.js and the handlers that write and read it.    *)
(* The Map keeps its entries in insertion order: USERS is the sequence of  *)
(* its entries.  A key is the value of req.body.email: a string, or (for a *)
(* body that holds an array there) the array object of that request, which *)
(* is equal to no other key; id tells such objects apart.                  *)
(***************************************************************************)
\* The value of req.body.email as the JSON parser of the request built it:
\* t is "undefined", "string" (the string s) or "array" (the array [s]).
Email(t, s) == [t |-> t, v |-> s, id |-> 0]

\* /^[^@\s]+@[^@\s]+\.[^@\s]+$/.test(s) for a string s.
emailPattern(s) ==
    /\ \A i \in 1..Len(s) : s[i] # " "
    /\ Cardinality({i \in 1..Len(s) : s[i] = "@"}) = 1
    /\ LET at == CHOOSE i \in 1..Len(s) : s[i] = "@"
       IN at > 1 /\ \E j \in (at + 2)..(Len(s) - 1) : s[j] = "."

\* A profile; a property that is missing or undefined is JUndef, and
\* subscribed is TRUE or not set.
EmptyProfile ==
    [lang |-> JUndef, sun |-> JUndef, rising |-> JUndef, birth |-> JUndef, subscribed |-> FALSE]

\* The key a request stores under: an array is an object of its own.
usersKey(us, email) == IF email.t = "array" THEN [email EXCEPT !.id = Len(us) + 1] ELSE email
usersHas(us, key) == \E i \in 1..Len(us) : us[i].email = key
\* USERS.get(email) || {}
usersGet(us, key) ==
    IF usersHas(us, key) THEN us[CHOOSE i \in 1..Len(us) : us[i].email = key].profile
    ELSE EmptyProfile
\* USERS.set(email, profile): an existing key keeps its place.
usersSet(us, key, profile) ==
    IF usersHas(us, key)
    THEN [us EXCEPT ![CHOOSE i \in 1..Len(us) : us[i].email = key].profile = profile]
    ELSE Append(us, [email |-> key, profile |-> profile])

OkBody == [kind |-> "ok", error |-> ""]

\* The record of a step of one of these handlers.
UserStep(ep, raw, outcome, resp) ==
    [ep |-> ep, raw |-> raw, outcome |-> outcome, resp |-> resp, t |-> now]

\* The check of POST /api/subscribe (line 237) and of POST /api/me/save-chart
\* (line 251): the request is answered 400.
subscribeRejects(email) == ~(email.t = "string" /\ emailPattern(email.v))
\* !email is true of undefined and of the empty string; test converts its
\* argument to a string first, so an array of one string is tested as that
\* string.
saveChartRejects(email) ==
    \/ email.t = "undefined"
    \/ (email.t = "string" /\ email.v = <<>>)
    \/ ~emailPattern(email.v)

\* POST /api/subscribe, lines 234-246.
Subscribe(b) ==
    LET key == usersKey(USERS, b.email)
    IN /\ variant = "server"
       /\ last = NoStep
       /\ UNCHANGED <<variant, OPENAI_KEY, now, cache, inflight, nreq, job>>
       /\ IF subscribeRejects(b.email)
          THEN /\ last' = UserStep("subscribe", b, "reject",
                                   Response(400, ErrorBody("Invalid email")))
               /\ UNCHANGED USERS
          ELSE /\ usersHas(USERS, key) \/ Len(USERS) < MaxUsers
               /\ USERS' = usersSet(USERS, key,
                              [usersGet(USERS, key) EXCEPT
                                  !.lang = OrElse(b.lang, JStr("en")), !.subscribed = TRUE])
               /\ last' = UserStep("subscribe", b, "success", Response(200, OkBody))

\* POST /api/me/save-chart, lines 249-254; lang = "en" when it is undefined.
SaveChart(b) ==
    LET key == usersKey(USERS, b.email)
    IN /\ variant = "server"
       /\ last = NoStep
       /\ UNCHANGED <<variant, OPENAI_KEY, now, cache, inflight, nreq, job>>
       /\ IF saveChartRejects(b.email)
          THEN /\ last' = UserStep("save-chart", b, "reject",
                                   Response(400, ErrorBody("Invalid email")))
               /\ UNCHANGED USERS
          ELSE /\ usersHas(USERS, key) \/ Len(USERS) < MaxUsers
               /\ USERS' = usersSet(USERS, key,
                              [usersGet(USERS, key) EXCEPT
                                  !.lang = IF b.lang.t = "undefined" THEN JStr("en") ELSE b.lang,
                                  !.sun = b.sun, !.rising = b.rising, !.birth = b.birth])
               /\ last' = UserStep("save-chart", b, "success", Response(200, OkBody))

\* POST /tasks/send-weekly-alerts, lines 257-271.  The handler walks the
\* entries of the Map and awaits one call of openaiJSON for each; idx is the
\* entry whose call it awaits, called the calls it has made so far (the
\* email, and the sun and lang of the prompt).
NoJob == [active |-> FALSE, idx |-> 0, called |-> <<>>]
WeeklyCall(entry) ==
    [email |-> entry.email,
     lang |-> OrElse(entry.profile.lang, JStr("en")),
     sun |-> OrElse(entry.profile.sun, JStr("aries"))]
\* settled tells how the awaited call of the step ended: "resolved",
\* "rejected", or "none" when the step follows no call.
JobStep(outcome, resp, called, http, settled) ==
    [ep |-> "weekly", outcome |-> outcome, resp |-> resp, called |-> called,
     http |-> http, settled |-> settled, t |-> now]

\* The request arrives: the loop starts, up to its first await.
WeeklyStart ==
    /\ variant = "server"
    /\ last = NoStep
    /\ ~job.active
    /\ UNCHANGED <<variant, OPENAI_KEY, now, cache, inflight, nreq, USERS>>
    /\ IF Len(USERS) = 0
       THEN /\ job' = NoJob
            /\ last' = JobStep("success", Response(200, OkBody), <<>>, 0, "none")
       ELSE IF ~OPENAI_KEY
       THEN /\ job' = NoJob
            /\ last' = JobStep("failure", Response(500, ErrorBody("job failed")),
                               <<WeeklyCall(USERS[1])>>, 0, "rejected")
       ELSE /\ job' = [active |-> TRUE, idx |-> 1, called |-> <<WeeklyCall(USERS[1])>>]
            /\ last' = JobStep("call", NoResponse, job'.called, 1, "none")

\* The awaited call resolves: the loop goes on with the next entry of the
\* Map as it is now, or ends and the handler responds.
WeeklyCallReturn ==
    /\ last = NoStep
    /\ job.active
    /\ UNCHANGED <<variant, OPENAI_KEY, now, cache, inflight, nreq, USERS>>
    /\ IF job.idx < Len(USERS)
       THEN /\ job' = [active |-> TRUE, idx |-> job.idx + 1,
                       called |-> Append(job.called, WeeklyCall(USERS[job.idx + 1]))]
            /\ last' = JobStep("call", NoResponse, job'.called, Len(job'.called), "resolved")
       ELSE /\ job' = NoJob
            /\ last' = JobStep("success", Response(200, OkBody), job.called, Len(job.called), "resolved")

\* The awaited call rejects: the catch block responds.
WeeklyCallFailMutSkip ==
    /\ last = NoStep
    /\ job.active
    /\ job.idx < Len(USERS)
    /\ UNCHANGED <<variant, OPENAI_KEY, now, cache, inflight, nreq, USERS>>
    /\ job' = [active |-> TRUE, idx |-> job.idx + 1,
               called |-> Append(job.called, WeeklyCall(USERS[job.idx + 1]))]
    /\ last' = JobStep("call", NoResponse, job'.called, Len(job'.called), "rejected")
WeeklyCallFail ==
    /\ last = NoStep
    /\ job.active
    /\ UNCHANGED <<variant, OPENAI_KEY, now, cache, inflight, nreq, USERS>>
    /\ job' = NoJob
    /\ last' = JobStep("failure", Response(500, ErrorBody("job failed")),
                       job.called, Len(job.called), "rejected")

(***************************************************************************)
(* Inputs of the model.                                                    *)
(***************************************************************************)
lion == <<"l","i","o","n">>
someday == <<"s","o","m","e","d","a","y">>
xx == <<"x","x">>

\* Requests of the concurrent model: valid in mixed case, with a missing
\* day, and with a day outside the enumeration.
SmallQueries ==
    [sign : {RawStr(<<"L","e","o">>)},
     day  : {RawUndef, RawStr(<<"T","o","m","o","r","r","o","w">>), RawStr(someday)},
     lang : {RawStr(<<"T","R">>)}]
SmallBodies ==
    [sun    : {RawStr(<<"L","e","o">>)},
     rising : {RawUndef},
     day    : {RawUndef, RawStr(someday)},
     lang   : {RawStr(<<"T","R">>)}]

\* Results of the awaited call: JSON null, an object with no property, and
\* an object with the fields the prompt of the build asks for.
NullResult == [isNull |-> TRUE, fields |-> EmptyObject]
EmptyResult == [isNull |-> FALSE, fields |-> EmptyObject]
FullResult(v) ==
    [isNull |-> FALSE,
     fields |-> CASE v = "part_000" ->
                       [aciklama |-> JStr("Cesur gun"), ruh_hali |-> JStr("Enerjik"),
                        renk |-> JStr("Kirmizi"), odak |-> JStr("Is")]
                  [] v = "part_001" ->
                       [current_date |-> JStr("November 1, 2026"),
                        description |-> JStr("Bold day"), mood |-> JStr("Energetic"),
                        color |-> JStr("Red")]
                  [] OTHER ->
                       [description |-> JStr("Bold day"), mood |-> JStr("Energetic"),
                        color |-> JStr("Red"), summary |-> JStr("Bold")]]
SmallResults(v) == {NullResult, EmptyResult, FullResult(v)}

(***************************************************************************)
(* The concurrent model: up to MaxRequests requests, up to MaxInFlight     *)
(* handlers suspended at a time, the clock moving up to MaxTicks steps.    *)
(***************************************************************************)
Init ==
    /\ variant \in Variants
    /\ OPENAI_KEY \in BOOLEAN
    /\ now = StartNow(variant)
    /\ cache = EmptyObject
    /\ inflight = EmptyBag
    /\ last = NoStep
    /\ nreq = 0
    /\ USERS = <<>>
    /\ job = NoJob

Next ==
    \/ \E q \in SmallQueries : nreq < MaxRequests /\ DailyArrive(q)
    \/ \E b \in SmallBodies : nreq < MaxRequests /\ PersonalizedArrive(b)
    \/ \E r \in BagToSet(inflight), res \in SmallResults(variant) : GeneratorReturn(r, res)
    \/ \E r \in BagToSet(inflight) : GeneratorFail(r)
    \/ Observe
    \/ ClockTick

Spec == Init /\ [][Next]_vars

(***************************************************************************)
(* The validation model: one request per behaviour, drawn from every sign  *)
(* in three casings and from values outside the enumerations.              *)
(***************************************************************************)
UpperChar(c) ==
    IF \E i \in 1..Len(LowerLetters) : LowerLetters[i] = c
    THEN UpperLetters[CHOOSE i \in 1..Len(LowerLetters) : LowerLetters[i] = c]
    ELSE c
Shout(w) == [i \in 1..Len(w) |-> UpperChar(w[i])]
Capitalized(w) == [i \in 1..Len(w) |-> IF i = 1 THEN UpperChar(w[i]) ELSE w[i]]
Casings(words) == UNION {{RawStr(w), RawStr(Capitalized(w)), RawStr(Shout(w))} : w \in words}

\* PISCES written with the dotted capital I, and leo followed by a space.
piscesDotted == <<"P","U+0130","S","C","E","S">>
OutsideSigns == {RawUndef, RawStr(<<>>), RawStr(lion), RawStr(leo \o <<" ">>), RawStr(piscesDotted)}

WideQueries ==
    [sign : Casings(SIGNS) \cup OutsideSigns,
     day  : Casings({tomorrow}) \cup {RawUndef, RawStr(today), RawStr(yesterday), RawStr(someday)},
     lang : {RawUndef, RawStr(en), RawStr(Shout(tr)), RawStr(es), RawStr(dk), RawStr(xx)}]
WideBodies ==
    [sun    : Casings({leo, pisces}) \cup OutsideSigns,
     rising : Casings({virgo}) \cup {RawUndef, RawStr(<<>>), RawStr(lion)},
     day    : {RawUndef, RawStr(Capitalized(tomorrow)), RawStr(yesterday), RawStr(someday)},
     lang   : {RawUndef, RawStr(Shout(tr)), RawStr(dk), RawStr(xx)}]

NextValidation ==
    \/ \E q \in WideQueries : nreq = 0 /\ DailyArrive(q)
    \/ \E b \in WideBodies : nreq = 0 /\ PersonalizedArrive(b)
    \/ \E r \in BagToSet(inflight) : GeneratorReturn(r, FullResult(variant))
    \/ \E r \in BagToSet(inflight) : GeneratorFail(r)
    \/ Observe

SpecValidation == Init /\ [][NextValidation]_vars

(***************************************************************************)
(* The key model: two daily or personalized requests in flight together,   *)
(* the first from a few parameter combinations, the second from all.       *)
(***************************************************************************)
FirstQueries ==
    [sign : {RawStr(Capitalized(leo)), RawStr(libra)}, day : {RawStr(today), RawStr(tomorrow)},
     lang : {RawStr(en), RawStr(tr)}]
AllQueries ==
    [sign : {RawStr(w) : w \in SIGNS}, day : {RawStr(w) : w \in DAY_VALUES},
     lang : {RawStr(w) : w \in LANGS}]
KeyBodies ==
    [sun : {RawStr(leo)}, rising : {RawUndef}, day : {RawStr(today)}, lang : {RawStr(en)}]

NextKeys ==
    \/ \E q \in FirstQueries : nreq = 0 /\ DailyArrive(q)
    \/ \E q \in AllQueries : nreq = 1 /\ DailyArrive(q)
    \/ \E b \in KeyBodies : nreq = 1 /\ PersonalizedArrive(b)
    \/ \E r \in BagToSet(inflight) : GeneratorReturn(r, FullResult(variant))
    \/ Observe

SpecKeys == Init /\ [][NextKeys]_vars

(***************************************************************************)
(* The shaping model: one valid request per behaviour, in each language,   *)
(* and a result of the awaited call drawn from every combination of a      *)
(* color, a mood and a styling suggestion that is absent, null, empty, in  *)
(* a table of the build or outside of it.                                  *)
(***************************************************************************)
\* The property is not in the JSON object.
Absent == [t |-> "absent", v |-> ""]
Field(name, x) == IF x = Absent THEN EmptyObject ELSE name :> x

\* The property names the prompt of the build asks for.
ColorField(v) == IF v = "part_000" THEN "renk" ELSE "color"
MoodField(v) == IF v = "part_000" THEN "ruh_hali" ELSE "mood"
TipField(v, ep) ==
    IF v = "part_000" THEN (IF ep = "daily" THEN "moda_onerisi" ELSE "stil") ELSE "fashion_tip"

WideColors == {Absent, JNull, JStr(""), JStr("Red"), JStr("Kirmizi"), JStr("Gri"),
               JStr("Rojo"), JStr("Rod"), JStr("Teal"), JStr("constructor")}
WideMoods == {Absent, JStr(""), JStr("Energetic"), JStr("Enerjik"), JStr("Energetico"),
              JStr("Energisk"), JStr("Moody")}
WideTips == {Absent, JStr(""), JStr("Wear linen")}

WideResults(v) ==
    {NullResult} \cup
    {[isNull |-> FALSE,
      fields |-> Field(ColorField(v), c) @@ Field(MoodField(v), m)
                 @@ Field(TipField(v, "daily"), f) @@ Field(TipField(v, "personalized"), f)] :
        c \in WideColors, m \in WideMoods, f \in WideTips}

ShapingQueries ==
    [sign : {RawStr(leo)}, day : {RawUndef}, lang : {RawStr(w) : w \in LANGS}]
ShapingBodies ==
    [sun : {RawStr(leo)}, rising : {RawUndef, RawStr(virgo)}, day : {RawUndef},
     lang : {RawStr(en), RawStr(tr)}]

NextShaping ==
    \/ \E q \in ShapingQueries : nreq = 0 /\ DailyArrive(q)
    \/ \E b \in ShapingBodies : nreq = 0 /\ PersonalizedArrive(b)
    \/ \E r \in BagToSet(inflight), res \in WideResults(variant) : GeneratorReturn(r, res)
    \/ Observe

SpecShaping == Init /\ [][NextShaping]_vars

(***************************************************************************)
(* The user-store model: server.js with requests to /api/subscribe and     *)
(* /api/me/save-chart in any order, up to MaxUsers entries in the Map.     *)
(***************************************************************************)
ab == <<"a","@","b",".","c">>
de == <<"d","@","e",".","f">>
\* Values of req.body.email: two addresses and an array holding an address,
\* with every body around them; a missing value, the empty string and
\* strings that are no address (no dot after the @, a space, no local part,
\* two @, nothing after the dot, no @), with a body of nothing else.
AddressValues == {Email("string", ab), Email("string", de), Email("array", ab)}
OtherValues ==
    {Email("undefined", <<>>)} \cup
    {Email("string", w) :
        w \in {<<>>, <<"a","@","b">>, <<"a"," ","@","b",".","c">>, <<"@","b",".","c">>,
               <<"a","@","@","b",".","c">>, <<"a","@","b",".">>, <<"a",".","b">>}}
SubscribeBodies ==
    [email : AddressValues, lang : {JUndef, JStr("tr")}]
    \cup [email : OtherValues, lang : {JUndef}]
\* A chart is saved whole (sun and birth) or with nothing in it.
SaveChartBodies ==
    {[email |-> e, lang |-> l, sun |-> c[1], rising |-> JUndef, birth |-> c[2]] :
        e \in AddressValues, l \in {JUndef, JStr("tr")},
        c \in {<<JUndef, JUndef>>, <<JStr("leo"), JStr("1990-01-01")>>}}
    \cup {[email |-> e, lang |-> JUndef, sun |-> JUndef, rising |-> JUndef, birth |-> JUndef] :
        e \in OtherValues}

InitUsers == Init /\ variant = "server"

NextUsers ==
    \/ \E b \in SubscribeBodies : Subscribe(b)
    \/ \E b \in SaveChartBodies : SaveChart(b)
    \/ Observe

SpecUsers == InitUsers /\ [][NextUsers]_vars

(***************************************************************************)
(* The weekly-job model: server.js with one weekly job at a time, the      *)
(* store changing while the job waits for its calls, and one daily request *)
(* that fills the cache.                                                   *)
(***************************************************************************)
WeeklySubscribeBodies ==
    [email : {Email("string", ab), Email("string", de)}, lang : {JUndef, JStr("tr")}]
    \cup [email : {Email("string", <<"g","@","h",".","i">>)}, lang : {JUndef}]
WeeklySaveChartBodies ==
    [email : {Email("string", ab)}, lang : {JUndef}, sun : {JStr("leo")},
     rising : {JUndef}, birth : {JUndef}]

NextWeekly ==
    \/ \E b \in WeeklySubscribeBodies : Subscribe(b)
    \/ \E b \in WeeklySaveChartBodies : SaveChart(b)
    \/ WeeklyStart
    \/ WeeklyCallReturn
    \/ WeeklyCallFail
    \/ nreq = 0 /\ DailyArrive([sign |-> RawStr(leo), day |-> RawUndef, lang |-> RawUndef])
    \/ \E r \in BagToSet(inflight) : GeneratorReturn(r, FullResult(variant))
    \/ Observe

SpecWeekly == InitUsers /\ [][NextWeekly]_vars

(***************************************************************************)
(* The response model: the requests of the concurrent model with the clock *)
(* standing still, every awaited call settling in the end and the event    *)
(* loop going on to the next step.                                         *)
(***************************************************************************)
\* The closures a handler of a build can be suspended with before the clock
\* has moved.
Closures ==
    UNION {{[ep |-> "daily", raw |-> q, p |-> DailyLocals(v, q),
             key |-> cacheKey(v, DailyLocals(v, q).sign, DailyLocals(v, q).day,
                              DailyLocals(v, q).lang),
             calls |-> 1, t0 |-> IF v = "part_001" THEN StartNow(v) ELSE 0] :
                q \in SmallQueries}
           \cup {[ep |-> "personalized", raw |-> b, p |-> PersonalizedLocals(v, b),
                  key |-> NoKey, calls |-> 1, t0 |-> 0] : b \in SmallBodies} :
           v \in Variants}

\* The awaited call of the suspended handler r settles: it resolves with
\* some result or it rejects.
Settle(r) ==
    \/ \E res \in SmallResults(variant) : GeneratorReturn(r, res)
    \/ GeneratorFail(r)

NextResponse ==
    \/ \E q \in SmallQueries : nreq < MaxRequests /\ DailyArrive(q)
    \/ \E b \in SmallBodies : nreq < MaxRequests /\ PersonalizedArrive(b)
    \/ \E r \in BagToSet(inflight), res \in SmallResults(variant) : GeneratorReturn(r, res)
    \/ \E r \in BagToSet(inflight) : GeneratorFail(r)
    \/ Observe

SpecResponse ==
    /\ Init /\ [][NextResponse]_vars
    /\ WF_vars(Observe)
    /\ \A r \in Closures : WF_vars(Settle(r))

(***************************************************************************)
(* Properties.                                                             *)
(***************************************************************************)
\* The words of a request as the properties read them: the lower-cased
\* value, and the lower-cased value with a missing or empty one defaulted.
Lowered(x) == ToLowerCase(x.v)
DefaultedLower(x, dflt) == IF x.v = <<>> THEN dflt ELSE ToLowerCase(x.v)

\* The key carries the word w as its sign segment.
KeySignOffset(v) == IF v = "part_001" THEN 0 ELSE Len(dailyPrefix)
KeyHasSign(v, key, w) ==
    /\ Len(key) > KeySignOffset(v) + Len(w)
    /\ SubSeq(key, KeySignOffset(v) + 1, KeySignOffset(v) + Len(w)) = w
    /\ key[KeySignOffset(v) + Len(w) + 1] = ":"

\* The payload carries the sign w: as sign in the builds with languages, as
\* its Turkish name (burc) in part_000 and part_001.
PayloadHasSign(v, data, w) ==
    IF v \in {"part_000", "part_001"} THEN data.burc = JStr(TR_SIGN(w)) ELSE data.sign = w

IsDaily == last.outcome # "none" /\ last.ep = "daily"
IsPersonalized == last.outcome # "none" /\ last.ep = "personalized"
\* The step is the synchronous part of a daily request that passed validation.
IsDailyLookup == IsDaily /\ last.outcome \in {"hit", "call"}

\* C1: a daily request whose lower-cased sign is not one of the twelve signs
\* (a missing or empty sign included) gets 400; a sign that is one of the
\* twelve in any casing passes the sign check, and the cache key and the
\* payload carry the lower-cased identifier (in part_000 and part_001 the
\* payload carries it as its Turkish name).
C1_SignValidation ==
    IsDaily =>
        LET w == Lowered(last.raw.sign)
        IN /\ w \notin SIGNS => (last.outcome = "reject" /\ last.resp.status = 400
                                 /\ last.resp.body.kind = "error")
           /\ w \in SIGNS =>
                /\ last.verdict # ErrSign(variant)
                /\ last.outcome # "reject" => (last.p.sign = w /\ KeyHasSign(variant, last.key, w))
                /\ last.outcome \in {"hit", "success"} =>
                       PayloadHasSign(variant, last.resp.body.data, w)
C1_Witness ==
    /\ IsDaily /\ last.outcome = "success" /\ last.resp.status = 200
    /\ last.raw.sign = RawStr(Shout(scorpio))
    /\ last.key \in DOMAIN cache

\* C2 as stated: a daily request whose supplied day is not, as written, one
\* of today, tomorrow, yesterday, or whose supplied lang is not, as written,
\* one of en, tr, es, dk (builds with languages), gets 400 with an error
\* body; a 200 response is sent only when the sign (in any casing) and the
\* supplied day and lang are inside their enumerations.
Supplied(x) == x.t = "string" /\ x.v # <<>>
C2_SuppliedDayLang ==
    IsDaily =>
        LET outside == \/ (Supplied(last.raw.day) /\ last.raw.day.v \notin DAY_VALUES)
                       \/ (HasLang(variant) /\ Supplied(last.raw.lang)
                           /\ last.raw.lang.v \notin LANGS)
        IN /\ outside => (last.outcome = "reject" /\ last.resp.status = 400
                          /\ last.resp.body.kind = "error")
           /\ (last.outcome \in {"hit", "success", "failure"} /\ last.resp.status = 200) =>
                  (Lowered(last.raw.sign) \in SIGNS /\ ~outside)

\* C2 amended: day and lang are checked after normalization.  A daily
\* request whose day (lower-cased, today when missing or empty) is not a day
\* selector, or whose lang (lower-cased, en when missing or empty; builds
\* with languages) is not a supported code, gets 400 with an error body; a
\* 200 response is sent only when sign, day and lang, so normalized, are all
\* in their enumerations.
C2_DayLangValidation ==
    IsDaily =>
        LET sign == Lowered(last.raw.sign)
            day == DefaultedLower(last.raw.day, today)
            lang == DefaultedLower(last.raw.lang, en)
        IN /\ (day \notin DAY_VALUES \/ (HasLang(variant) /\ lang \notin LANGS)) =>
                  (last.outcome = "reject" /\ last.resp.status = 400
                   /\ last.resp.body.kind = "error")
           /\ (last.outcome \in {"hit", "success", "failure"} /\ last.resp.status = 200) =>
                  (sign \in SIGNS /\ day \in DAY_VALUES
                   /\ (HasLang(variant) => lang \in LANGS))
C2_Witness ==
    /\ IsDaily /\ last.outcome = "reject" /\ last.verdict = ErrLang(variant)
    /\ last.resp.status = 400
    /\ Lowered(last.raw.sign) \in SIGNS /\ last.raw.day = RawStr(Shout(tomorrow))

\* C3: in every build a personalized request gets 400 with an error body
\* when sun is not a sign, when a non-empty rising is not a sign, when day is
\* not a day selector or when lang is not a supported code (builds with
\* languages); a missing or empty rising is accepted.
C3_PersonalizedValidation ==
    IsPersonalized =>
        LET sun == Lowered(last.raw.sun)
            rising == Lowered(last.raw.rising)
            day == DefaultedLower(last.raw.day, today)
            lang == DefaultedLower(last.raw.lang, en)
            bad == \/ sun \notin SIGNS
                   \/ (rising # <<>> /\ rising \notin SIGNS)
                   \/ day \notin DAY_VALUES
                   \/ (HasLang(variant) /\ lang \notin LANGS)
        IN /\ bad => (last.outcome = "reject" /\ last.resp.status = 400
                      /\ last.resp.body.kind = "error")
           /\ ~bad => last.outcome # "reject"

\* C4: a request rejected by validation gets its 400 without any call of the
\* generator or data source, without any cache lookup and without any
\* change of the cache; and every request with a parameter outside its
\* enumeration is so rejected, before the lookup and the call.
C4_RejectedTouchesNothing ==
    /\ IsDaily =>
          ((Lowered(last.raw.sign) \notin SIGNS
            \/ DefaultedLower(last.raw.day, today) \notin DAY_VALUES
            \/ (HasLang(variant) /\ DefaultedLower(last.raw.lang, en) \notin LANGS))
           => last.outcome = "reject")
    /\ IsPersonalized =>
          ((Lowered(last.raw.sun) \notin SIGNS
            \/ (Lowered(last.raw.rising) # <<>> /\ Lowered(last.raw.rising) \notin SIGNS))
           => last.outcome = "reject")
    /\ last.outcome = "reject" =>
          /\ last.resp.status = 400 /\ last.resp.body.kind = "error"
          /\ last.calls = 0 /\ last.http = 0 /\ last.reads = 0 /\ ~last.wrote
C4_Witness ==
    /\ last.outcome = "reject" /\ last.ep = "daily"
    /\ DOMAIN cache # {} /\ inflight # EmptyBag

\* C5: a valid daily request that finds an entry under its key while
\* now < expiresAt is answered 200 with exactly the stored payload and makes
\* no generator call.
C5_CacheHit ==
    (IsDaily /\ last.outcome \in {"hit", "call", "failure"}
     /\ last.seen.present /\ last.t < last.seen.expiresAt) =>
        /\ last.outcome = "hit"
        /\ last.resp = Response(200, PayloadBody(last.seen.data))
        /\ last.calls = 0 /\ last.http = 0
C5_Witness ==
    /\ IsDaily /\ last.outcome = "hit" /\ last.t > StartNow(variant)
    /\ last.t < last.seen.expiresAt
    /\ last.resp.body.data = cache[last.key].data

\* C6: a valid daily request that finds an entry under its key when
\* now >= expiresAt (now = expiresAt included) is not served from it: it
\* issues a fresh call, and the expired entry stays in the cache.
C6_StrictExpiry ==
    (IsDaily /\ last.outcome \in {"hit", "call", "failure"}
     /\ last.seen.present /\ last.t >= last.seen.expiresAt) =>
        /\ last.outcome = "call"
        /\ last.calls = 1 /\ last.http = 1
        /\ last.key \in DOMAIN cache
        /\ cache[last.key] = [data |-> last.seen.data, expiresAt |-> last.seen.expiresAt]
C6_Witness ==
    /\ IsDaily /\ last.outcome = "call"
    /\ last.seen.present /\ last.t = last.seen.expiresAt

\* C7: the cache key is an injective function of the validated parameters:
\* two daily requests in flight have the same key exactly when they have the
\* same normalized parameters, a personalized request has no key, and an
\* entry stored under the key of a request carries that request's sign.
C7_KeyInjective ==
    /\ \A r1, r2 \in BagToSet(inflight) :
          (r1.ep = "daily" /\ r2.ep = "daily") => ((r1.key = r2.key) <=> (r1.p = r2.p))
    /\ \A r \in BagToSet(inflight) :
          /\ r.ep = "personalized" => (r.key = NoKey /\ r.key \notin DOMAIN cache)
          /\ r.ep = "daily" => r.key # NoKey
          /\ (r.ep = "daily" /\ r.key \in DOMAIN cache) =>
                 PayloadHasSign(variant, cache[r.key].data, r.p.sign)
C7_Witness ==
    \E r1, r2 \in BagToSet(inflight) :
        /\ r1.ep = "daily" /\ r2.ep = "daily"
        /\ r1.p.sign = r2.p.sign /\ r1.p.day = r2.p.day /\ r1.p.lang # r2.p.lang
        /\ r1.key # r2.key

\* C8: no negative caching.  A request that fails or is rejected leaves the
\* cache unchanged; every entry is the shaped payload of a result of the
\* awaited call, stored under the key of its request; and a valid request
\* that finds no unexpired entry calls the generator again.
ClockValues(v) == {StartNow(v) + i * Tick : i \in 0..MaxTicks}
\* The entries a build can store: key and shaped payload of an accepted
\* request, of a result that does not make the shaping throw, at a time of
\* the clock.
AcceptedLocals(v) ==
    {p \in {DailyLocals(v, q) : q \in SmallQueries} :
        DailyCheck(v, p.sign, p.day, p.lang) = Accepted}
StorableEntries ==
    [v \in Variants |->
        {<<cacheKey(v, p.sign, p.day, p.lang),
           DailyPayload(v, p.sign, p.day, p.lang, res.fields, res.isNull, t)>> :
             p \in AcceptedLocals(v),
             res \in {r \in SmallResults(v) : ~shapingThrows(v, r)},
             t \in ClockValues(v)}]
C8_NoNegativeCaching ==
    /\ last.outcome \in {"failure", "reject"} => ~last.wrote
    /\ \A k \in DOMAIN cache : <<k, cache[k].data>> \in StorableEntries[variant]
    /\ (IsDailyLookup /\ ~(last.seen.present /\ last.t < last.seen.expiresAt)) =>
          (last.outcome = "call" /\ last.calls = 1 /\ last.http = 1)
C8_Witness ==
    /\ IsDaily /\ last.outcome = "failure" /\ last.http = 1
    /\ variant = "part_000" /\ last.resp.status = 200
    /\ last.key \notin DOMAIN cache

\* C9 as stated: a failing generator call of a valid request always ends in
\* a 200 response with a complete fallback payload, never in a 500 or an
\* error body.
C9_AlwaysSoftFallback ==
    (last.outcome = "failure" /\ last.http = 1) =>
        (last.resp.status = 200 /\ last.resp.body.kind = "payload")

\* The fields of the payloads of part_000.
SchemaTr(ep) ==
    IF ep = "daily" THEN DOMAIN DailyPayloadTr(leo, today, EmptyObject, now)
    ELSE DOMAIN PersonalizedPayload("part_000", leo, <<>>, today, NoLang, EmptyObject, now)

\* C9 amended: in part_000 a failing generator call of a valid request ends
\* in a 200 response with a static fallback payload that has every schema
\* field; in the other builds it ends in an error body, with status 500, or
\* with status 200 in the second server of part_003.
C9_FallbackPerBuild ==
    last.outcome = "failure" =>
        IF variant = "part_000"
        THEN /\ last.resp.status = 200 /\ last.resp.body.kind = "payload"
             /\ DOMAIN last.resp.body.data = SchemaTr(last.ep)
             /\ \A f \in DOMAIN last.resp.body.data \ {"gun"} :
                   last.resp.body.data[f].t # "undefined"
        ELSE /\ last.resp.body.kind = "error"
             /\ last.resp.status = IF variant = "part_003b" THEN 200 ELSE 500
C9_Witness ==
    /\ IsPersonalized /\ last.outcome = "failure" /\ last.http = 1
    /\ variant = "part_000" /\ last.resp.status = 200
    /\ last.resp.body.kind = "payload"

\* C10: within a build both endpoints answer a failing generator call alike:
\* the response of the failing request has the status and the kind of body
\* (fallback payload, or error) that the catch block of the other endpoint
\* sends.
OutcomeKind(resp) == [status |-> resp.status, kind |-> resp.body.kind]
C10_UniformFailurePolicy ==
    (last.outcome = "failure" /\ HasPersonalized(variant)) =>
        IF last.ep = "daily"
        THEN \A b \in SmallBodies :
                OutcomeKind(last.resp) =
                    OutcomeKind(PersonalizedCatch(variant, b, UpstreamErrorMsg(variant), last.t))
        ELSE \A q \in SmallQueries :
                OutcomeKind(last.resp) =
                    OutcomeKind(DailyCatch(variant, q, UpstreamErrorMsg(variant), last.t))
C10_Witness ==
    /\ IsPersonalized /\ last.outcome = "failure" /\ last.http = 1
    /\ variant = "server" /\ last.resp.status = 500

\* The fields of a payload that echo the request or are fixed by the build
\* (character sequences and the affiliate object); the others hold values
\* shaped from the result of the awaited call.
EchoFields == {"sign", "lang", "gun", "sun", "rising", "image", "affiliate"}
\* The fields of the daily payload of a build.
DailySchemas ==
    [v \in Variants |->
        DOMAIN DailyPayload(v, leo, today, IF HasLang(v) THEN en ELSE NoLang,
                            FullResult(v).fields, FALSE, StartNow(v))]
DailySchema(v) == DailySchemas[v]

\* C11: the payload of every successful daily request has every schema
\* field, and no field shaped from the result is null or undefined, whatever
\* the result of the awaited call lacks.
C11_DefaultFill ==
    (IsDaily /\ last.outcome = "success" /\ last.resp.status = 200) =>
        LET data == last.resp.body.data
        IN /\ DOMAIN data = DailySchema(variant)
           /\ \A f \in DOMAIN data \ EchoFields : data[f].t \notin {"null", "undefined"}

\* What the properties read of a successful step: the color and the mood
\* the handler passes to fashionTip (part_000 fills in Gri and Dengeli
\* first), the suggestion of the result, and the suggestion of the payload.
HasFashionTip(v) == v # "part_001"
IsShaped == last.outcome = "success" /\ last.resp.status = 200 /\ HasFashionTip(variant)
TipColor ==
    IF variant = "part_000" THEN OrElse(Get(last.res.fields, "renk"), JStr("Gri"))
    ELSE Get(last.res.fields, "color")
TipMood ==
    IF variant = "part_000" THEN OrElse(Get(last.res.fields, "ruh_hali"), JStr("Dengeli"))
    ELSE Get(last.res.fields, "mood")
GeneratorTip == Get(last.res.fields, TipField(variant, last.ep))
PayloadTip == last.resp.body.data[TipField(variant, last.ep)]
HasEntry(table, x) == x.t = "string" /\ x.v \in DOMAIN table
\* The payload's suggestion is the one fashionTip derived from the tables.
TipIsDerived ==
    IF variant = "server" \/ (variant = "part_000" /\ last.ep = "personalized")
    THEN ~Truthy(GeneratorTip) ELSE TRUE

\* C12: when the color of the result has an entry in the color table of the
\* language, the table-derived suggestion is that entry, whatever the mood;
\* the suggestion is the mood table's entry only when the color is absent or
\* has no entry in the color table.
C12_ColorBeforeMood ==
    (IsShaped /\ TipIsDerived) =>
        LET colors == byColor(variant, last.p.lang)
        IN /\ HasEntry(colors, TipColor) => PayloadTip = JStr(colors[TipColor.v])
           /\ (variant # "part_003b" /\ HasEntry(byMood(variant, last.p.lang), TipMood)
               /\ PayloadTip = JStr(byMood(variant, last.p.lang)[TipMood.v])) =>
                  ~HasEntry(colors, TipColor)
C12_Witness ==
    /\ IsShaped /\ TipIsDerived /\ variant = "server" /\ last.p.lang = en
    /\ TipColor = JStr("Red") /\ TipMood = JStr("Energetic")
    /\ PayloadTip = JStr(byColorServer(en).Red)

\* C13 as stated: in every build a truthy suggestion of the generator is the
\* suggestion of the payload; the table never takes its place.
C13_GeneratorWins ==
    (IsShaped /\ Truthy(GeneratorTip)) => PayloadTip = GeneratorTip

\* The handlers that read the suggestion of the generator: both of
\* server.js, and POST /api/personalized of part_000 (stil).
ReadsGeneratorTip ==
    variant = "server" \/ (variant = "part_000" /\ last.ep = "personalized")

\* C13 amended: where the handler reads the generator's suggestion, a truthy
\* one is the suggestion of the payload and the table (color, then mood) is
\* used only otherwise; the other handlers never read it, and their
\* suggestion is always the one derived from the table.
C13_GeneratorWinsWhereRead ==
    IsShaped =>
        LET derived == fashionTip(variant, TipColor, TipMood, last.p.lang)
        IN IF ReadsGeneratorTip
           THEN /\ Truthy(GeneratorTip) => PayloadTip = GeneratorTip
                /\ ~Truthy(GeneratorTip) => PayloadTip = derived
           ELSE PayloadTip = derived
C13_Witness ==
    /\ IsShaped /\ variant = "server" /\ last.p.lang = en
    /\ GeneratorTip = JStr("Wear linen") /\ TipColor = JStr("Red")
    /\ PayloadTip = JStr("Wear linen")

\* C14: in part_001, the build that calls the astrology data API, a request
\* whose fetch fails ends only after three fetches, and then with a 200
\* response carrying a substituted default payload, not with an error.
C14_ThreeAttemptsThenDefault ==
    (variant = "part_001" /\ IsDaily /\ last.outcome = "failure") =>
        /\ last.http = 3
        /\ last.resp.status = 200 /\ last.resp.body.kind = "payload"

\* C15: in the builds that call the text generator no request calls it
\* twice: a request has made at most one call (of one fetch) when it ends,
\* none when it is rejected or served from the cache, and the calls in
\* flight never outnumber the requests received.
C15_AtMostOneCall ==
    UsesOpenAI(variant) =>
        /\ last.outcome # "none" => (last.calls <= 1 /\ last.http <= 1)
        /\ last.outcome \in {"reject", "hit"} => (last.calls = 0 /\ last.http = 0)
        /\ \A r \in BagToSet(inflight) : r.calls = 1
        /\ BagCardinality(inflight)
             + (IF last.outcome \in {"reject", "hit", "success", "failure"} THEN 1 ELSE 0) <= nreq
C15_Witness ==
    /\ UsesOpenAI(variant) /\ last.outcome = "failure" /\ last.res = NoResult
    /\ last.calls = 1 /\ last.http = 1 /\ inflight # EmptyBag

\* C16: with the credential missing, a valid request fails at its call of
\* the generator, before any fetch, and ends with an error body; nothing is
\* ever in flight or stored; an invalid request still gets its 400; and the
\* process goes on accepting requests.
C16_MissingCredential ==
    (UsesOpenAI(variant) /\ ~OPENAI_KEY) =>
        /\ inflight = EmptyBag /\ cache = EmptyObject
        /\ last.outcome # "none" => (last.http = 0 /\ ~last.wrote)
        /\ last.outcome = "reject" => last.resp.status = 400
        /\ last.outcome \notin {"none", "reject"} =>
              /\ last.outcome = "failure" /\ last.calls = 1
              /\ last.resp.body.kind = "error"
        /\ (last = NoStep /\ nreq < MaxRequests) =>
              \A q \in SmallQueries : ENABLED DailyArrive(q)

\* C17: every 200 payload, the static fallback of part_000 included, carries
\* the sign (sun) and the day of the request in normalized form wherever it
\* has a field for them: the lower-cased sign (its Turkish name in part_000
\* and part_001) and the lower-cased, defaulted day (gun).
C17_PayloadNormalized ==
    (last.outcome \in {"hit", "success", "failure"} /\ last.resp.status = 200
     /\ last.resp.body.kind = "payload") =>
        LET data == last.resp.body.data
        IN /\ IsDaily => PayloadHasSign(variant, data, Lowered(last.raw.sign))
           /\ (IsDaily /\ "gun" \in DOMAIN data) =>
                  data.gun = DefaultedLower(last.raw.day, today)
           /\ IsPersonalized =>
                  IF variant = "part_000"
                  THEN data.gunes = JStr(TR_SIGN(Lowered(last.raw.sun)))
                  ELSE data.sun = Lowered(last.raw.sun)

\* C18: a lookup never changes the cache.  The step of a hit and the step of
\* a miss leave every entry, the expired one under the key included, as it
\* was; no entry ever disappears; and an entry changes only in the step in
\* which a successful request stores under its key.
C18_LookupNeverMutates ==
    [][/\ last'.outcome \in {"hit", "call", "reject"} => cache' = cache
       /\ \A k \in DOMAIN cache :
             /\ k \in DOMAIN cache'
             /\ cache'[k] # cache[k] => (last'.outcome = "success" /\ last'.key = k)]_vars
C18_Witness ==
    /\ IsDaily /\ last.outcome = "call"
    /\ last.seen.present /\ last.seen.expiresAt < last.t
    /\ cache[last.key] = [data |-> last.seen.data, expiresAt |-> last.seen.expiresAt]

\* C19: the store of a successful daily request puts a whole new entry under
\* the key: the payload just sent, with expiresAt equal to the time of the
\* store plus the lifetime of the build (20 or 30 minutes), whatever was
\* under the key before and however long the awaited call took.
MinuteMs == 60 * 1000
C19_StoreFreshEntry ==
    (IsDaily /\ last.outcome = "success") =>
        /\ last.key \in DOMAIN cache
        /\ cache[last.key].data = last.resp.body.data
        /\ cache[last.key].expiresAt =
               last.t + (IF variant \in {"server", "part_002"} THEN 20 ELSE 30) * MinuteMs

\* The handlers suspended at their await with the cache key k.
InFlightWithKey(k) ==
    LET rs == {r \in BagToSet(inflight) : r.ep = "daily" /\ r.key = k}
        RECURSIVE Sum(_)
        Sum(S) == IF S = {} THEN 0
                  ELSE LET r == CHOOSE x \in S : TRUE
                       IN CopiesIn(r, inflight) + Sum(S \ {r})
    IN Sum(rs)

\* C20: requests with the same parameters race benignly.  A valid daily
\* request that finds no unexpired entry calls the generator even while
\* another request with its key is in flight; each request that completes
\* stores its own payload, so the entry under the key is the one of the call
\* that completed last; and every entry is at all times a complete pair of a
\* full payload and an expiry time.
C20_BenignRace ==
    /\ (IsDailyLookup /\ ~(last.seen.present /\ last.t < last.seen.expiresAt)) =>
          /\ last.calls = 1
          /\ last.outcome = "call" => InFlightWithKey(last.key) >= 1
    /\ (IsDaily /\ last.outcome = "success") =>
          (last.key \in DOMAIN cache /\ cache[last.key].data = last.resp.body.data)
    /\ \A k \in DOMAIN cache :
          /\ DOMAIN cache[k] = {"data", "expiresAt"}
          /\ cache[k].expiresAt \in Nat
          /\ DOMAIN cache[k].data = DailySchema(variant)
C20_Witness ==
    /\ IsDaily /\ last.outcome = "success"
    /\ last.prev.present /\ last.prev.expiresAt > last.t
    /\ last.prev.data # last.resp.body.data
    /\ cache[last.key].data = last.resp.body.data

\* The keys of the requests that pass validation in a build: one for every
\* sign, day selector and (builds with languages) language code.
ValidKeys ==
    [v \in Variants |->
        {cacheKey(v, sign, day, lang) :
            sign \in SIGNS, day \in DAY_VALUES,
            lang \in IF HasLang(v) THEN LANGS ELSE {NoLang}}]
KeySpaceSizes == [v \in Variants |-> Cardinality(ValidKeys[v])]

\* C21: every key in the cache is the key of a request that passed
\* validation (sign one of the twelve, day one of the three, lang one of the
\* four), so the cache never has more than 144 entries in the builds with
\* languages and 36 in the others; and no step removes an entry.
C21_KeysValidated ==
    /\ [](/\ DOMAIN cache \subseteq ValidKeys[variant]
          /\ KeySpaceSizes[variant] = IF HasLang(variant) THEN 144 ELSE 36
          /\ Cardinality(DOMAIN cache) <= KeySpaceSizes[variant]
          /\ \A r \in BagToSet(inflight) : r.ep = "daily" => r.key \in ValidKeys[variant])
    /\ [][DOMAIN cache \subseteq DOMAIN cache']_vars
C21_Witness ==
    /\ IsDaily /\ last.outcome = "reject" /\ last.raw.day = RawStr(someday)
    /\ Cardinality(DOMAIN cache) = 2
    /\ \E k \in DOMAIN cache : cache[k].expiresAt < now

\* The outcomes that end a request, and the statuses a response has.
Terminal == {"reject", "hit", "success", "failure"}
Statuses == {200, 400, 500}

\* C22: every request gets exactly one response.  The step that receives a
\* request either ends it with one response (reject, hit, or failure before
\* any fetch) or suspends it at its call without a response; the step in
\* which the call settles ends one suspended request with one response
\* (success or failure); the outcomes exclude each other; and when every
\* call settles, every suspended request is answered in the end.
C22_ExactlyOneResponse ==
    /\ [][(last = NoStep /\ last' # NoStep) =>
            /\ last'.outcome \in Terminal \cup {"call"}
            /\ last'.outcome \in Terminal =>
                  /\ last'.resp.status \in Statuses
                  /\ \/ (nreq' = nreq + 1 /\ inflight' = inflight
                         /\ last'.outcome # "success")
                     \/ (nreq' = nreq /\ last'.outcome \in {"success", "failure"}
                         /\ \E r \in BagToSet(inflight) :
                               /\ inflight' = inflight (-) SetToBag({r})
                               /\ r.ep = last'.ep /\ r.raw = last'.raw)
            /\ last'.outcome = "call" =>
                  /\ last'.resp = NoResponse /\ nreq' = nreq + 1
                  /\ BagCardinality(inflight') = BagCardinality(inflight) + 1]_vars
    /\ [](BagCardinality(inflight) <= nreq)
    /\ \A r \in Closures :
          BagIn(r, inflight) ~>
              (last.outcome \in {"success", "failure"} /\ last.ep = r.ep
               /\ last.raw = r.raw /\ last.resp.status \in Statuses)
    /\ <>[](inflight = EmptyBag)
C22_Witness ==
    /\ last.outcome = "success" /\ last.resp.status = 200
    /\ nreq = MaxRequests /\ inflight # EmptyBag

\* C23: the personalized endpoint never touches the cache.  A personalized
\* request makes no cache lookup, has no key and is never served from the
\* cache; every one that passes validation makes its own call of the
\* generator (one fetch when the credential is set), whatever was asked and
\* stored before; and no step of a personalized request changes the cache.
C23_PersonalizedBypassesCache ==
    /\ [](IsPersonalized =>
            /\ last.reads = 0 /\ ~last.wrote /\ last.key = NoKey
            /\ last.outcome # "hit"
            /\ last.verdict = Accepted =>
                  /\ last.calls = 1
                  /\ OPENAI_KEY => last.http = 1)
    /\ [][(last'.outcome # "none" /\ last'.ep = "personalized") => cache' = cache]_vars
C23_Witness ==
    /\ IsPersonalized /\ last.outcome = "call" /\ last.http = 1
    /\ DOMAIN cache # {}
    /\ \E r \in BagToSet(inflight) :
          r.ep = "personalized" /\ r.raw = last.raw /\ CopiesIn(r, inflight) = 2

\* The date field of a daily payload.
DateField(v) == IF HasLang(v) THEN "date" ELSE "tarih"

\* C24: the date of every 200 daily payload is the calendar day that the
\* day selector of the request denotes at the time of the response, also
\* when the payload comes from the cache and midnight has passed since it
\* was stored.  (part_001 copies the date its data source sends and is left
\* out.)
C24_DateIsCurrent ==
    (IsDaily /\ variant # "part_001" /\ last.outcome \in {"hit", "success", "failure"}
     /\ last.resp.status = 200 /\ last.resp.body.kind = "payload") =>
        last.resp.body.data[DateField(variant)].v.day =
            CalendarDay(variant, last.t) + dayOffset(last.p.day)

\* An email that is missing or malformed: anything but a string of the
\* shape local@domain.tld without spaces.
Malformed(email) == email.t # "string" \/ ~emailPattern(email.v)
IsUserStep == last = NoStep /\ last' # NoStep /\ last'.ep \in {"subscribe", "save-chart"}

\* C25: in every step of /api/subscribe and /api/me/save-chart, a request
\* whose email is missing or malformed gets 400 and leaves the store as it
\* was; every entry stays in its place, and one that has subscribed: true
\* keeps it; a successful subscribe leaves the record of its email with
\* subscribed: true and erases no chart field (sun, rising, birth) of any
\* record.
C25_SubscribedPersists ==
    [][IsUserStep =>
          /\ Malformed(last'.raw.email) => (last'.resp.status = 400 /\ USERS' = USERS)
          /\ Len(USERS') >= Len(USERS)
          /\ \A i \in 1..Len(USERS) :
                /\ USERS'[i].email = USERS[i].email
                /\ USERS[i].profile.subscribed => USERS'[i].profile.subscribed
                /\ last'.ep = "subscribe" =>
                      /\ USERS'[i].profile.sun = USERS[i].profile.sun
                      /\ USERS'[i].profile.rising = USERS[i].profile.rising
                      /\ USERS'[i].profile.birth = USERS[i].profile.birth
          /\ (last'.ep = "subscribe" /\ last'.outcome = "success") =>
                /\ usersHas(USERS', last'.raw.email)
                /\ usersGet(USERS', last'.raw.email).subscribed]_vars

\* The emails of the first n entries of the store, in store order.
StoreEmails(n) == [i \in 1..n |-> USERS[i].email]
CalledEmails(called) == [i \in 1..Len(called) |-> called[i].email]
IsWeekly == last # NoStep /\ last.ep = "weekly"

\* C26: the weekly job calls the generator for the stored users one at a
\* time, once each and in store order.  It answers {ok: true} only after a
\* call for every user has resolved; when a call rejects it answers 500 in
\* that step and calls for no further user; and no step of the job changes
\* the user store or the cache.
C26_WeeklyJob ==
    /\ [](/\ job.active =>
               /\ job.idx = Len(job.called) /\ job.idx >= 1 /\ job.idx <= Len(USERS)
               /\ CalledEmails(job.called) = StoreEmails(job.idx)
          /\ IsWeekly =>
               /\ last.outcome \in {"call", "success", "failure"}
               /\ Len(last.called) <= Len(USERS)
               /\ CalledEmails(last.called) = StoreEmails(Len(last.called))
               /\ last.outcome = "call" =>
                     (job.active /\ last.resp = NoResponse /\ last.settled # "rejected")
               /\ last.outcome = "success" =>
                     /\ last.resp = Response(200, OkBody) /\ ~job.active
                     /\ last.settled # "rejected"
                     /\ Len(last.called) = Len(USERS) /\ last.http = Len(USERS)
               /\ last.settled = "rejected" =>
                     /\ last.outcome = "failure" /\ ~job.active
                     /\ last.resp.status = 500 /\ last.resp.body.kind = "error"
               /\ last.outcome = "failure" => last.settled = "rejected")
    /\ [][(last = NoStep /\ last' # NoStep /\ last'.ep = "weekly") =>
             (USERS' = USERS /\ cache' = cache)]_vars
C26_Witness ==
    /\ IsWeekly /\ last.outcome = "failure" /\ last.http = 1
    /\ Len(last.called) = 1 /\ Len(USERS) = 2
    /\ DOMAIN cache # {}

====
